---- MODULE Spec2Model ----
(***************************************************************************)
(* BOQ matching and estimation engine: the RateLimiter queue, the tokenizer *)
(* and fuzzy matcher, the advisor adapter, parseAndMatchBOQ and the         *)
(* POST /upload-boq handler with its replace transaction.                   *)
(*                                                                          *)
(* Execution model: one JavaScript event loop.  Every action is one         *)
(* macrotask or one microtask run to its next suspension point; macrotasks  *)
(* are taken only when the microtask queue is empty.                        *)
(***************************************************************************)
EXTENDS Integers, Sequences, FiniteSets, TLC

VARIABLES
  now,            \* wall clock, ms
  queue,          \* RateLimiter.queue: entries {task, resolve, reject}
  isProcessing,   \* RateLimiter.isProcessing
  frames,         \* process() invocations suspended at `await task()`
  timers,         \* pending setTimeout callbacks of process(): due times
  tasks,          \* every task ever passed to add(), by id
  promises,       \* the promise add() returned for each task, by id
  microtasks,     \* the microtask queue of the event loop
  apiKey,         \* process.env.GEMINI_API_KEY is set
  up,             \* per upload request: the handler's position and locals
  boq_items,      \* table boq_items, committed rows in id order
  txn,            \* per upload: the open transaction of its client
  lock,           \* holder of the ACCESS EXCLUSIVE lock on boq_items, 0 if free
  probe           \* one call of a pure function: its name, argument and result

limVars == <<queue, isProcessing, frames, timers, tasks, promises, microtasks>>
upVars == <<apiKey, up, boq_items, txn, lock>>
vars == <<now, limVars, upVars, probe>>

\* ---------------------------------------------------------------- bounds
TickMs == 2250
MaxTicks == 5
MaxTasks == 3
MaxTextLen == 3

\* ------------------------------------------------------------- constants
minDelayMs == 4500

\* Task outcomes and promise values: a thrown error, or a returned value.
\* Values are sequences: << >> is null, <<v>> is the value v.
None == [kind |-> "none", value |-> << >>]
Err == [kind |-> "err", value |-> << >>]
Ok(v) == [kind |-> "ok", value |-> v]

\* ------------------------------------------------------------------ text
\* A string is a sequence of one-character strings; << >> is the empty
\* string and also stands for a missing (null, undefined) cell or column.
UpperCase == <<"A", "B", "C", "D", "E", "F", "G", "H", "I", "J", "K", "L", "M",
               "N", "O", "P", "Q", "R", "S", "T", "U", "V", "W", "X", "Y", "Z">>
LowerCase == <<"a", "b", "c", "d", "e", "f", "g", "h", "i", "j", "k", "l", "m",
               "n", "o", "p", "q", "r", "s", "t", "u", "v", "w", "x", "y", "z">>
Digits == {"0", "1", "2", "3", "4", "5", "6", "7", "8", "9"}
WhiteSpace == {" ", "\t", "\n"}

\* Faulty variant: toLowerCase left out.
toLowerCaseCharIdentity(c) == c

toLowerCaseChar(c) ==
  IF \E k \in 1..26 : UpperCase[k] = c
  THEN LowerCase[CHOOSE k \in 1..26 : UpperCase[k] = c]
  ELSE c

toLowerCase(text) == [k \in 1..Len(text) |-> toLowerCaseChar(text[k])]

\* \w of a JavaScript regular expression: [A-Za-z0-9_]
IsWordChar(c) ==
  \/ \E k \in 1..26 : UpperCase[k] = c \/ LowerCase[k] = c
  \/ c \in Digits
  \/ c = "_"

RECURSIVE trimStart(_)
trimStart(text) ==
  IF text # << >> /\ Head(text) \in WhiteSpace THEN trimStart(Tail(text)) ELSE text

RECURSIVE trimEnd(_)
trimEnd(text) ==
  IF text # << >> /\ text[Len(text)] \in WhiteSpace
  THEN trimEnd(SubSeq(text, 1, Len(text) - 1))
  ELSE text

trim(text) == trimEnd(trimStart(text))

\* .replace(/[^\w\s]/gi, '')
stripPunctuation(text) == SelectSeq(text, LAMBDA c : IsWordChar(c) \/ c \in WhiteSpace)

\* .split(/\s+/): the words between runs of white space, as a sequence
RECURSIVE splitWords(_, _, _)
splitWords(text, word, acc) ==
  IF text = << >> THEN Append(acc, word)
  ELSE IF Head(text) \in WhiteSpace
       THEN IF Tail(text) # << >> /\ Head(Tail(text)) \in WhiteSpace
            THEN splitWords(Tail(text), word, acc)
            ELSE splitWords(Tail(text), << >>, Append(acc, word))
       ELSE splitWords(Tail(text), Append(word, Head(text)), acc)

STOP_WORDS == {
    <<"a">>, <<"a", "n">>, <<"a", "n", "d">>, <<"t", "h", "e">>,
    <<"i", "n">>, <<"o", "n">>, <<"f", "o", "r">>, <<"w", "i", "t", "h">>,
    <<"o", "f">>, <<"t", "o">>, <<"i", "s">>, <<"a", "r", "e">>,
    <<"w", "a", "s">>, <<"w", "e", "r", "e">>, <<"i", "n", "c", "l", "u", "d", "i", "n", "g">>, <<"s", "u", "p", "p", "l", "y">>,
    <<"p", "r", "o", "v", "i", "d", "i", "n", "g">>, <<"o", "f">>, <<"a", "l", "l">>, <<"c", "o", "m", "p", "l", "e", "t", "e">>,
    <<"w", "o", "r", "k">>, <<"a", "s">>, <<"p", "e", "r">>, <<"d", "e", "t", "a", "i", "l", "s">>,
    <<"i", "t", "e", "m">>, <<"r", "a", "t", "e">>, <<"c", "h", "a", "r", "g", "e", "s">>, <<"f", "i", "x", "i", "n", "g">>,
    <<"l", "a", "y", "i", "n", "g">> }

\* tokenize(text): the set of lower-cased words longer than two characters
\* that are no stop words.
tokenize(text) ==
  IF text = << >> THEN {}
  ELSE LET words == splitWords(stripPunctuation(toLowerCase(text)), << >>, << >>)
       IN {words[k] : k \in {n \in 1..Len(words) :
                                Len(words[n]) > 2 /\ words[n] \notin STOP_WORDS}}

\* --------------------------------------------------- fuzzy rate matching
\* Money is counted in hundredths (DECIMAL(10, 2)), quantities in units.
\* A nullable number is a sequence: << >> is null (or NaN), <<n>> is n.

\* Faulty variant: the unit filter compares without lower-casing the catalog unit.
relevantRatesCaseSensitive(ratesData, unit) ==
  SelectSeq(ratesData, LAMBDA rate : rate.unit = unit)

\* Faulty variant: the entries are not filtered by unit.
relevantRatesAnyUnit(ratesData, unit) == ratesData

\* ratesData.filter(rate => rate.unit.toLowerCase() === unit)
relevantRates(ratesData, unit) ==
  SelectSeq(ratesData, LAMBDA rate : toLowerCase(rate.unit) = unit)

currentScore(descriptionTokens, rate) ==
  2 * Cardinality(descriptionTokens \cap tokenize(rate.item_name))
    + Cardinality(descriptionTokens \cap tokenize(rate.keywords))

\* Faulty variant: of the entries with the highest score the last one wins.
RECURSIVE bestOfLastWins(_, _, _, _)
bestOfLastWins(candidates, descriptionTokens, bestMatch, highestScore) ==
  IF candidates = << >>
  THEN [bestMatch |-> bestMatch, highestScore |-> highestScore]
  ELSE LET score == currentScore(descriptionTokens, Head(candidates))
       IN IF score > highestScore \/ (score = highestScore /\ score > 0)
          THEN bestOfLastWins(Tail(candidates), descriptionTokens, <<Head(candidates)>>, score)
          ELSE bestOfLastWins(Tail(candidates), descriptionTokens, bestMatch, highestScore)

RECURSIVE bestOf(_, _, _, _)
bestOf(candidates, descriptionTokens, bestMatch, highestScore) ==
  IF candidates = << >>
  THEN [bestMatch |-> bestMatch, highestScore |-> highestScore]
  ELSE LET score == currentScore(descriptionTokens, Head(candidates))
       IN IF score > highestScore
          THEN bestOf(Tail(candidates), descriptionTokens, <<Head(candidates)>>, score)
          ELSE bestOf(Tail(candidates), descriptionTokens, bestMatch, highestScore)

\* Faulty variant: a row is matched to the first candidate of its unit whatever the score.
matchRateAnyCandidate(description, unit, ratesData) ==
  LET candidates == relevantRates(ratesData, unit)
  IN IF candidates = << >> THEN [bestMatch |-> << >>, highestScore |-> 0]
     ELSE [bestMatch |-> <<Head(candidates)>>, highestScore |-> 1]

\* The matching block of parseAndMatchBOQ: bestMatch is << >> (null) or <<rate>>.
matchRate(description, unit, ratesData) ==
  LET candidates == relevantRates(ratesData, unit)
  IN IF Len(candidates) > 0
     THEN bestOf(candidates, tokenize(description), << >>, 0)
     ELSE [bestMatch |-> << >>, highestScore |-> 0]

\* ------------------------------------------------------- advisor adapter
\* The text of a reply is a sequence of lexical tokens: t is the kind of the
\* token, n the value of a number, s the content of a string.
Tok(t) == [t |-> t, n |-> 0, s |-> ""]
Num(n) == [t |-> "num", n |-> n, s |-> ""]
Str(s) == [t |-> "str", n |-> 0, s |-> s]

\* The two replace() calls on rawText: every json code fence ("fenceJson")
\* and every bare code fence ("fence") is removed.
stripFences(rawText) == SelectSeq(rawText, LAMBDA k : k.t \notin {"fenceJson", "fence"})

\* The members of a JSON object after the opening brace; rate is the value
\* the key "rate" has so far (a later duplicate replaces an earlier one).
RECURSIVE parseMembers(_, _)
parseMembers(ts, rate) ==
  IF Len(ts) >= 3 /\ ts[1].t = "str" /\ ts[2].t = ":" /\ ts[3].t \in {"num", "str", "null"}
  THEN LET r == IF ts[1].s = "rate" THEN <<ts[3]>> ELSE rate
       IN IF Len(ts) = 3 THEN [ok |-> TRUE, rate |-> r]
          ELSE IF ts[4].t = "," THEN parseMembers(SubSeq(ts, 5, Len(ts)), r)
          ELSE [ok |-> FALSE, rate |-> << >>]
  ELSE [ok |-> FALSE, rate |-> << >>]

\* JSON.parse(jsonText): ok is false when it throws; rate is parsed.rate,
\* << >> when parsed has none.  White space between tokens is skipped.
JSONparse(jsonText) ==
  LET ts == SelectSeq(jsonText, LAMBDA k : k.t # "ws")
  IN IF Len(ts) = 1 /\ ts[1].t \in {"num", "str", "null"} THEN [ok |-> TRUE, rate |-> << >>]
     ELSE IF Len(ts) = 2 /\ ts[1].t = "{" /\ ts[2].t = "}" THEN [ok |-> TRUE, rate |-> << >>]
     ELSE IF Len(ts) > 2 /\ ts[1].t = "{" /\ ts[Len(ts)].t = "}"
     THEN parseMembers(SubSeq(ts, 2, Len(ts) - 1), << >>)
     ELSE [ok |-> FALSE, rate |-> << >>]

\* What the external call of getAiRateSuggestion comes back with: axios.post
\* rejects (status "error") or resolves with the text of the first candidate
\* (<< >> when the response has none).
NoReply == [status |-> "error", text |-> << >>]
txtRateObject(n) == <<Tok("{"), Str("rate"), Tok(":"), n, Tok("}")>>

Replies == {NoReply,
            [status |-> "ok", text |-> << >>],
            [status |-> "ok", text |-> <<Tok("word"), Tok("ws"), Tok("word")>>],
            [status |-> "ok", text |-> txtRateObject(Str("high"))],
            [status |-> "ok", text |-> <<Tok("fenceJson"), Tok("ws")>> \o txtRateObject(Num(0))
                                         \o <<Tok("ws"), Tok("fence")>>],
            [status |-> "ok", text |-> txtRateObject(Num(1500000))]}

\* Faulty variant: the external call is issued whether or not there is a key.
getAiRateSuggestionCallAlways(geminiApiKey) == "async"

\* What calling getAiRateSuggestion does before it first returns control:
\* without a key it warns and returns null at once ("immediate", an already
\* resolved promise), with one it issues axios.post and awaits it ("async").
getAiRateSuggestionCall(geminiApiKey) == IF geminiApiKey THEN "async" ELSE "immediate"

\* Faulty variant: a network error is thrown past the adapter.
getAiRateSuggestionThrows(geminiApiKey, reply) ==
  IF ~geminiApiKey THEN Ok(<< >>)
  ELSE IF reply.status = "error" THEN Err
  ELSE IF reply.text = << >> THEN Ok(<< >>)
  ELSE LET parsed == JSONparse(stripFences(reply.text))
       IN IF parsed.ok /\ parsed.rate # << >> /\ parsed.rate[1].t = "num"
          THEN Ok(<<parsed.rate[1].n>>)
          ELSE Ok(<< >>)

\* Faulty variant: a rate that is not a number is passed on as it is read.
getAiRateSuggestionLenient(geminiApiKey, reply) ==
  IF ~geminiApiKey THEN Ok(<< >>)
  ELSE IF reply.status = "error" THEN Ok(<< >>)
  ELSE IF reply.text = << >> THEN Ok(<< >>)
  ELSE LET parsed == JSONparse(stripFences(reply.text))
       IN IF parsed.ok /\ parsed.rate # << >>
          THEN Ok(<<parsed.rate[1].n>>)
          ELSE Ok(<< >>)

\* getAiRateSuggestion: the settled value of the promise it returns, << >>
\* for null and <<rate>> for { rate }.
getAiRateSuggestion(geminiApiKey, reply) ==
  IF ~geminiApiKey THEN Ok(<< >>)
  ELSE IF reply.status = "error" THEN Ok(<< >>)
  ELSE IF reply.text = << >> THEN Ok(<< >>)
  ELSE LET parsed == JSONparse(stripFences(reply.text))
       IN IF parsed.ok /\ parsed.rate # << >> /\ parsed.rate[1].t = "num"
          THEN Ok(<<parsed.rate[1].n>>)
          ELSE Ok(<< >>)

\* ------------------------------------------------------------ sample data
txtBrickwork == <<"B", "r", "i", "c", "k", "w", "o", "r", "k">>
txtBrickWallMasonry == <<"b", "r", "i", "c", "k", " ", "w", "a", "l", "l", " ", "m", "a", "s", "o", "n", "r", "y">>
txtBrickMasonryWalls == <<"B", "r", "i", "c", "k", " ", "M", "a", "s", "o", "n", "r", "y", " ", "W", "a", "l", "l", "s">>
txtM2 == <<"m", "2">>
txtM2Upper == <<" ", "M", "2", " ">>
txtCement == <<"C", "e", "m", "e", "n", "t">>
txtBag == <<"b", "a", "g">>
txtCementBags == <<"S", "u", "p", "p", "l", "y", " ", "o", "f", " ", "c", "e", "m", "e", "n", "t", ",", " ", "5", "0", "k", "g", " ", "b", "a", "g", "s">>
txtSolar == <<"I", "n", "s", "t", "a", "l", "l", " ", "s", "o", "l", "a", "r", " ", "p", "a", "n", "e", "l", " ", "a", "r", "r", "a", "y">>
txtUnit == <<"u", "n", "i", "t">>
txtTimberDoor == <<"T", "i", "m", "b", "e", "r", " ", "d", "o", "o", "r">>
txtMasonryWall == <<"M", "a", "s", "o", "n", "r", "y", " ", "w", "a", "l", "l">>
txtOldItem == <<"F", "o", "u", "n", "d", "a", "t", "i", "o", "n", " ", "E", "x", "c", "a", "v", "a", "t", "i", "o", "n">>
txtM3 == <<"m", "3">>
txtBrickWall == <<"B", "r", "i", "c", "k", " ", "w", "a", "l", "l">>

\* The rates table (item_name, unit, rate_value, keywords).
Catalog ==
  << [item_name |-> txtBrickwork, unit |-> txtM2, rate_value |-> 4550,
      keywords |-> txtBrickWallMasonry],
     [item_name |-> txtBrickWall, unit |-> <<"M", "2">>, rate_value |-> 6000,
      keywords |-> << >>],
     [item_name |-> txtCement, unit |-> txtBag, rate_value |-> 875,
      keywords |-> txtCement] >>

\* Spreadsheet rows after the header: <<item no., description, quantity, unit>>.
rowBrick == <<<<"1">>, txtBrickMasonryWalls, <<"8", "5", "0">>, txtM2Upper>>
rowCement == <<<<"2">>, txtCementBags, <<"3">>, txtBag>>
rowSolar == <<<<"3">>, txtSolar, <<"1", "0">>, txtUnit>>
rowTimber == <<<<"4">>, txtTimberDoor, <<"2">>, txtM2>>
rowNoDescription == <<<<"5">>, <<" ">>, <<"7">>, txtM2>>
rowNoQuantity == <<<<"6">>, txtMasonryWall, <<"n", "/", "a">>, txtM2>>
rowNegative == <<<<"7">>, txtMasonryWall, <<"-", "1">>, txtM2>>

Unparsable == <<<<"unparsable">>>>
Files == { <<rowBrick, rowNoQuantity, rowSolar>>,
           <<rowTimber, rowNoDescription, rowSolar>>,
           Unparsable }

\* boq_items before any upload (description, quantity, unit, rate, total).
SeedItems == << [id |-> 1, description |-> txtOldItem, quantity |-> 150, unit |-> txtM3,
                 rate |-> << >>, total |-> << >>] >>

\* ------------------------------------------------------------ RateLimiter
LimiterState == [queue |-> queue, isProcessing |-> isProcessing, frames |-> frames,
                 timers |-> timers, tasks |-> tasks, promises |-> promises,
                 microtasks |-> microtasks]

\* try { resolve(await task()) } catch { reject(error) } finally { setTimeout(...) }
\* from the point where the task has settled with `outcome`.
\* Faulty variant: the cooldown timer is armed with no delay.
SettleNoDelay(L, e, outcome) ==
  LET S == [L EXCEPT !.frames = @ \ {e},
            !.tasks[e.task].exec = "done",
            !.tasks[e.task].outcome = outcome,
            !.tasks[e.task].settledAt = now,
            !.timers = @ \cup {now}]
  IN IF outcome.kind = "err"
     THEN [S EXCEPT !.promises[e.reject] =
             [state |-> "rejected", value |-> outcome.value, settles |-> @.settles + 1]]
     ELSE [S EXCEPT !.promises[e.resolve] =
             [state |-> "resolved", value |-> outcome.value, settles |-> @.settles + 1]]

\* Faulty variant: the timer is armed in the try block only, so a failure arms none.
SettleFailureStops(L, e, outcome) ==
  LET S == [L EXCEPT !.frames = @ \ {e},
            !.tasks[e.task].exec = "done",
            !.tasks[e.task].outcome = outcome,
            !.tasks[e.task].settledAt = now]
  IN IF outcome.kind = "err"
     THEN [S EXCEPT !.promises[e.reject] =
             [state |-> "rejected", value |-> outcome.value, settles |-> @.settles + 1]]
     ELSE [S EXCEPT !.promises[e.resolve] =
             [state |-> "resolved", value |-> outcome.value, settles |-> @.settles + 1],
                    !.timers = @ \cup {now + minDelayMs}]

Settle(L, e, outcome) ==
  LET owner == L.tasks[e.task].owner
      S == [L EXCEPT !.frames = @ \ {e},
            !.tasks[e.task].exec = "done",
            !.tasks[e.task].outcome = outcome,
            !.tasks[e.task].settledAt = now,
            !.timers = @ \cup {now + minDelayMs}]
      P == IF outcome.kind = "err"
           THEN [S EXCEPT !.promises[e.reject] =
                   [state |-> "rejected", value |-> outcome.value, settles |-> @.settles + 1]]
           ELSE [S EXCEPT !.promises[e.resolve] =
                   [state |-> "resolved", value |-> outcome.value, settles |-> @.settles + 1]]
  IN IF owner = 0 THEN P
     ELSE [P EXCEPT !.microtasks = Append(@, [kind |-> "resume", task |-> e.task])]

\* Faulty variant: process() without the isProcessing guard.
processNoGuard(L) ==
  IF Len(L.queue) = 0 THEN L
  ELSE LET e == Head(L.queue)
       IN [L EXCEPT !.isProcessing = TRUE,
                    !.queue = Tail(@),
                    !.frames = @ \cup {e},
                    !.tasks[e.task].exec = "running",
                    !.tasks[e.task].startAt = now,
                    !.tasks[e.task].starts = @ + 1]

\* Faulty variant: process() reads the head of the queue and leaves it there.
processNoShift(L) ==
  IF L.isProcessing \/ Len(L.queue) = 0 THEN L
  ELSE LET e == Head(L.queue)
           S == [L EXCEPT !.isProcessing = TRUE,
                          !.frames = @ \cup {e},
                          !.tasks[e.task].exec = "running",
                          !.tasks[e.task].startAt = now,
                          !.tasks[e.task].starts = @ + 1]
           b == L.tasks[e.task].behaviour
       IN CASE b = "throws" -> Settle(S, e, Err)
            [] b = "immediate" ->
                 [S EXCEPT !.microtasks = Append(@, [kind |-> "settle", task |-> e.task])]
            [] OTHER -> S

\* RateLimiter.process(), up to its first suspension.
process(L) ==
  IF L.isProcessing \/ Len(L.queue) = 0 THEN L
  ELSE LET e == Head(L.queue)
           S == [L EXCEPT !.isProcessing = TRUE,
                          !.queue = Tail(@),
                          !.frames = @ \cup {e},
                          !.tasks[e.task].exec = "running",
                          !.tasks[e.task].startAt = now,
                          !.tasks[e.task].starts = @ + 1]
           b == L.tasks[e.task].behaviour
       IN CASE b = "throws" -> Settle(S, e, Err)
            [] b = "immediate" ->
                 [S EXCEPT !.microtasks = Append(@, [kind |-> "settle", task |-> e.task])]
            [] OTHER -> S

\* A task as add() receives it: what calling it does (behaviour: "async" it
\* returns a promise settled later, "immediate" it returns a promise already
\* resolved, "throws" it throws), the value it resolves to when that is known
\* beforehand, and for a task of parseAndMatchBOQ the row it was made for.
NewTask(owner, task) ==
  [owner |-> owner, behaviour |-> task.behaviour, value |-> task.value, row |-> task.row,
   exec |-> "queued", outcome |-> None, startAt |-> -1, settledAt |-> -1, starts |-> 0]

\* Faulty variant: add() puts the entry at the front of the queue (unshift).
addUnshift(L, owner, task) ==
  LET id == Len(L.tasks) + 1
      p == [state |-> "pending", value |-> << >>, settles |-> 0]
  IN process([L EXCEPT !.tasks = Append(@, NewTask(owner, task)),
                       !.promises = Append(@, p),
                       !.queue = <<[task |-> id, resolve |-> id, reject |-> id]>> \o @])

\* RateLimiter.add(task): new Promise, push, process().
add(L, owner, task) ==
  LET id == Len(L.tasks) + 1
      p == [state |-> "pending", value |-> << >>, settles |-> 0]
  IN process([L EXCEPT !.tasks = Append(@, NewTask(owner, task)),
                       !.promises = Append(@, p),
                       !.queue = Append(@, [task |-> id, resolve |-> id, reject |-> id])])

\* Faulty variant: the timer callback clears isProcessing and does not call process().
timerCallbackNoProcess(L, due) ==
  [L EXCEPT !.isProcessing = FALSE, !.timers = @ \ {due}]

\* The setTimeout callback of process(): isProcessing = false; process().
timerCallback(L, due) ==
  process([L EXCEPT !.isProcessing = FALSE, !.timers = @ \ {due}])

SetLimiter(L) ==
  /\ queue' = L.queue
  /\ isProcessing' = L.isProcessing
  /\ frames' = L.frames
  /\ timers' = L.timers
  /\ tasks' = L.tasks
  /\ promises' = L.promises
  /\ microtasks' = L.microtasks

\* ------------------------------------------------------- parseAndMatchBOQ
DigitSeq == <<"0", "1", "2", "3", "4", "5", "6", "7", "8", "9">>
DigitValue(c) == (CHOOSE k \in 1..10 : DigitSeq[k] = c) - 1

RECURSIVE leadingDigits(_, _)
leadingDigits(text, acc) ==
  IF text # << >> /\ Head(text) \in Digits
  THEN leadingDigits(Tail(text), Append(acc, Head(text)))
  ELSE acc

RECURSIVE digitsValue(_, _)
digitsValue(digits, acc) ==
  IF digits = << >> THEN acc
  ELSE digitsValue(Tail(digits), 10 * acc + DigitValue(Head(digits)))

\* parseFloat of a cell holding an integer numeral, possibly with text after
\* it: << >> is NaN.
parseFloat(cell) ==
  LET text == trimStart(cell)
      negative == text # << >> /\ Head(text) = "-"
      signed == text # << >> /\ Head(text) \in {"-", "+"}
      digits == leadingDigits(IF signed THEN Tail(text) ELSE text, << >>)
  IN IF digits = << >> THEN << >>
     ELSE IF negative THEN <<0 - digitsValue(digits, 0)>>
     ELSE <<digitsValue(digits, 0)>>

\* The four fields parseAndMatchBOQ reads from a row.
parseRow(row) ==
  [item_no |-> trim(row[1]),
   description |-> trim(row[2]),
   quantity |-> parseFloat(row[3]),
   unit |-> toLowerCase(trim(row[4]))]

\* !(!description || isNaN(quantity) || !unit)
isRetained(r) == r.description # << >> /\ r.quantity # << >> /\ r.unit # << >>

\* Faulty variant: the line total is not added to projectTotal for advisor rows.
pushItemSkipsAiTotal(P, r, finalRate, isAiSuggestion, source) ==
  LET finalTotal == IF finalRate # << >> THEN <<finalRate[1] * r.quantity[1]>> ELSE << >>
  IN [P EXCEPT !.processedItems = Append(@,
                  [item_no |-> r.item_no, description |-> r.description,
                   quantity |-> r.quantity[1], unit |-> r.unit,
                   rate |-> finalRate, total |-> finalTotal,
                   isAiSuggestion |-> isAiSuggestion, source |-> source]),
               !.projectTotal = IF finalRate # << >> /\ ~isAiSuggestion
                                THEN @ + finalTotal[1] ELSE @,
               !.rowIdx = @ + 1]

\* Faulty variant: the item is put in front of the ones already priced.
pushItemInFront(P, r, finalRate, isAiSuggestion, source) ==
  LET finalTotal == IF finalRate # << >> THEN <<finalRate[1] * r.quantity[1]>> ELSE << >>
  IN [P EXCEPT !.processedItems = <<
                  [item_no |-> r.item_no, description |-> r.description,
                   quantity |-> r.quantity[1], unit |-> r.unit,
                   rate |-> finalRate, total |-> finalTotal,
                   isAiSuggestion |-> isAiSuggestion, source |-> source]>> \o @,
               !.projectTotal = IF finalRate # << >> THEN @ + finalTotal[1] ELSE @,
               !.rowIdx = @ + 1]

\* Faulty variant: the line total is the rate, whatever the quantity.
pushItemTotalIsRate(P, r, finalRate, isAiSuggestion, source) ==
  LET finalTotal == finalRate
  IN [P EXCEPT !.processedItems = Append(@,
                  [item_no |-> r.item_no, description |-> r.description,
                   quantity |-> r.quantity[1], unit |-> r.unit,
                   rate |-> finalRate, total |-> finalTotal,
                   isAiSuggestion |-> isAiSuggestion, source |-> source]),
               !.projectTotal = IF finalRate # << >> THEN @ + finalTotal[1] ELSE @,
               !.rowIdx = @ + 1]

\* The end of the loop body: line total, running total, processedItems.push.
pushItem(P, r, finalRate, isAiSuggestion, source) ==
  LET finalTotal == IF finalRate # << >> THEN <<finalRate[1] * r.quantity[1]>> ELSE << >>
  IN [P EXCEPT !.processedItems = Append(@,
                  [item_no |-> r.item_no, description |-> r.description,
                   quantity |-> r.quantity[1], unit |-> r.unit,
                   rate |-> finalRate, total |-> finalTotal,
                   isAiSuggestion |-> isAiSuggestion, source |-> source]),
               !.projectTotal = IF finalRate # << >> THEN @ + finalTotal[1] ELSE @,
               !.rowIdx = @ + 1]

\* return { processedItems: [], projectTotal: 0 } of the catch block.
returnEmpty(P) ==
  [P EXCEPT !.processedItems = << >>, !.projectTotal = 0, !.awaiting = 0, !.pc = "begin"]

\* Faulty variant: at the first row sent to the advisor the function returns
\* what it has, without awaiting the answer or reading the rows after it.
RECURSIVE rowLoopReturnsEarly(_, _, _, _)
rowLoopReturnsEarly(P, u, L, geminiApiKey) ==
  IF P.rowIdx > Len(P.file) THEN [up |-> [P EXCEPT !.pc = "begin"], lim |-> L]
  ELSE LET r == parseRow(P.file[P.rowIdx])
           m == matchRate(r.description, r.unit, P.ratesData)
       IN IF ~isRetained(r)
          THEN rowLoopReturnsEarly([P EXCEPT !.rowIdx = @ + 1], u, L, geminiApiKey)
          ELSE IF m.bestMatch # << >> /\ m.highestScore > 0
          THEN rowLoopReturnsEarly(pushItem(P, r, <<m.bestMatch[1].rate_value>>, FALSE,
                                            "Database"), u, L, geminiApiKey)
          ELSE [up |-> [P EXCEPT !.pc = "begin"],
                lim |-> add(L, u, [behaviour |-> getAiRateSuggestionCall(geminiApiKey),
                                   value |-> << >>, row |-> P.rowIdx])]

\* Faulty variant: the advisor task is enqueued and not awaited; the row is
\* pushed unpriced and the loop goes on to the next row.
RECURSIVE rowLoopNoAwait(_, _, _, _)
rowLoopNoAwait(P, u, L, geminiApiKey) ==
  IF P.rowIdx > Len(P.file) THEN [up |-> [P EXCEPT !.pc = "begin"], lim |-> L]
  ELSE LET r == parseRow(P.file[P.rowIdx])
           m == matchRate(r.description, r.unit, P.ratesData)
       IN IF ~isRetained(r)
          THEN rowLoopNoAwait([P EXCEPT !.rowIdx = @ + 1], u, L, geminiApiKey)
          ELSE IF m.bestMatch # << >> /\ m.highestScore > 0
          THEN rowLoopNoAwait(pushItem(P, r, <<m.bestMatch[1].rate_value>>, FALSE,
                                       "Database"), u, L, geminiApiKey)
          ELSE rowLoopNoAwait(pushItem(P, r, << >>, FALSE, "Manual"), u,
                              add(L, u, [behaviour |-> getAiRateSuggestionCall(geminiApiKey),
                                         value |-> << >>, row |-> P.rowIdx]),
                              geminiApiKey)

\* The for...of loop from row P.rowIdx on, up to the next await or the return.
\* P is the upload's record, L the limiter; geminiApiKey decides what the
\* enqueued task does.
RECURSIVE rowLoop(_, _, _, _)
rowLoop(P, u, L, geminiApiKey) ==
  IF P.rowIdx > Len(P.file) THEN [up |-> [P EXCEPT !.pc = "begin"], lim |-> L]
  ELSE LET r == parseRow(P.file[P.rowIdx])
           m == matchRate(r.description, r.unit, P.ratesData)
       IN IF ~isRetained(r)
          THEN rowLoop([P EXCEPT !.rowIdx = @ + 1], u, L, geminiApiKey)
          ELSE IF m.bestMatch # << >> /\ m.highestScore > 0
          THEN rowLoop(pushItem(P, r, <<m.bestMatch[1].rate_value>>, FALSE, "Database"),
                       u, L, geminiApiKey)
          ELSE [up |-> [P EXCEPT !.pc = "ai", !.awaiting = Len(L.tasks) + 1],
                lim |-> add(L, u, [behaviour |-> getAiRateSuggestionCall(geminiApiKey),
                                   value |-> << >>, row |-> P.rowIdx])]

\* Faulty variant: the parse error of an unreadable file is thrown to the handler.
parseAndMatchBOQThrows(P, u, L, geminiApiKey) ==
  IF P.file = Unparsable
  THEN [up |-> [P EXCEPT !.pc = "rollback", !.error = "parse"], lim |-> L]
  ELSE rowLoop([P EXCEPT !.rowIdx = 1, !.processedItems = << >>, !.projectTotal = 0],
               u, L, geminiApiKey)

\* parseAndMatchBOQ from its first line to its first suspension or return.
parseAndMatchBOQ(P, u, L, geminiApiKey) ==
  IF P.file = Unparsable THEN [up |-> returnEmpty(P), lim |-> L]
  ELSE rowLoop([P EXCEPT !.rowIdx = 1, !.processedItems = << >>, !.projectTotal = 0],
               u, L, geminiApiKey)

\* Faulty variant: an empty advisor answer is asked for again.
resumeRowRetries(P, u, L, geminiApiKey) ==
  LET aiSuggestion == L.promises[P.awaiting]
      r == parseRow(P.file[P.rowIdx])
  IN IF aiSuggestion.state = "rejected" THEN [up |-> returnEmpty(P), lim |-> L]
     ELSE IF aiSuggestion.value # << >>
     THEN rowLoop(pushItem([P EXCEPT !.awaiting = 0], r, aiSuggestion.value, TRUE,
                           "AI Estimate"), u, L, geminiApiKey)
     ELSE [up |-> [P EXCEPT !.awaiting = Len(L.tasks) + 1],
           lim |-> add(L, u, [behaviour |-> getAiRateSuggestionCall(geminiApiKey),
                              value |-> << >>, row |-> P.rowIdx])]

\* Faulty variant: an empty advisor answer ends the run like a parse error.
resumeRowAborts(P, u, L, geminiApiKey) ==
  LET aiSuggestion == L.promises[P.awaiting]
      r == parseRow(P.file[P.rowIdx])
  IN IF aiSuggestion.state = "rejected" \/ aiSuggestion.value = << >>
     THEN [up |-> returnEmpty(P), lim |-> L]
     ELSE rowLoop(pushItem([P EXCEPT !.awaiting = 0], r, aiSuggestion.value, TRUE,
                           "AI Estimate"), u, L, geminiApiKey)

\* Faulty variant: every row that went to the advisor is marked as its estimate.
resumeRowAlwaysAi(P, u, L, geminiApiKey) ==
  LET aiSuggestion == L.promises[P.awaiting]
      r == parseRow(P.file[P.rowIdx])
  IN IF aiSuggestion.state = "rejected" THEN [up |-> returnEmpty(P), lim |-> L]
     ELSE rowLoop(pushItem([P EXCEPT !.awaiting = 0], r, aiSuggestion.value, TRUE,
                           "AI Estimate"), u, L, geminiApiKey)

\* parseAndMatchBOQ resumed after `await aiLimiter.add(...)`.
resumeRow(P, u, L, geminiApiKey) ==
  LET aiSuggestion == L.promises[P.awaiting]
      r == parseRow(P.file[P.rowIdx])
  IN IF aiSuggestion.state = "rejected" THEN [up |-> returnEmpty(P), lim |-> L]
     ELSE IF aiSuggestion.value # << >>
     THEN rowLoop(pushItem([P EXCEPT !.awaiting = 0], r, aiSuggestion.value, TRUE,
                           "AI Estimate"), u, L, geminiApiKey)
     ELSE rowLoop(pushItem([P EXCEPT !.awaiting = 0], r, << >>, FALSE, "Manual"),
                  u, L, geminiApiKey)

\* ------------------------------------------------------------ event loop
Idle == microtasks = <<>>

\* The clock is read by the limiter only (setTimeout), so it is advanced only
\* while the limiter times something: an executing task or a running
\* cooldown.  Time that passes otherwise would only widen the measured gaps.
Tick ==
  /\ now + TickMs <= MaxTicks * TickMs
  /\ frames # {} \/ \E due \in timers : due > now
  /\ now' = now + TickMs
  /\ UNCHANGED <<probe, limVars, upVars>>

TimerFire ==
  /\ Idle
  /\ \E due \in timers :
       /\ now >= due
       /\ SetLimiter(timerCallback(LimiterState, due))
  /\ UNCHANGED <<probe, now, upVars>>

\* ------------------------------------- a RateLimiter with arbitrary callers
TaskBehaviours == {"async", "throws"}

CallerAdd ==
  /\ Idle
  /\ Len(tasks) < MaxTasks
  /\ \E b \in TaskBehaviours :
       SetLimiter(add(LimiterState, 0,
                      [behaviour |-> b, value |-> <<100 + Len(tasks) + 1>>, row |-> 0]))
  /\ UNCHANGED <<probe, now, upVars>>

TaskResolves ==
  /\ Idle
  /\ \E e \in frames :
       /\ tasks[e.task].owner = 0
       /\ tasks[e.task].behaviour = "async"
       /\ SetLimiter(Settle(LimiterState, e, Ok(tasks[e.task].value)))
  /\ UNCHANGED <<probe, now, upVars>>

TaskRejects ==
  /\ Idle
  /\ \E e \in frames :
       /\ tasks[e.task].owner = 0
       /\ tasks[e.task].behaviour = "async"
       /\ SetLimiter(Settle(LimiterState, e, Err))
  /\ UNCHANGED <<probe, now, upVars>>

\* Two upload requests, which may overlap in any way.
Uploads == {1, 2}

NoResponse == [status |-> 0, hasItems |-> FALSE, processedItems |-> << >>, projectTotal |-> 0]
NoTxn == [open |-> FALSE, truncated |-> FALSE, snapshot |-> << >>, rows |-> << >>]

NewUpload == [pc |-> "idle", file |-> << >>, ratesData |-> << >>, rowIdx |-> 0,
              processedItems |-> << >>, projectTotal |-> 0, awaiting |-> 0,
              insIdx |-> 0, error |-> "", response |-> NoResponse]

\* No pure function is called on its own while the server runs.
NoProbe == [fn |-> "none", arg |-> << >>, applied |-> FALSE, out |-> << >>]

UploadInit ==
  /\ probe = NoProbe
  /\ up = [u \in Uploads |-> NewUpload]
  /\ boq_items = SeedItems
  /\ txn = [u \in Uploads |-> NoTxn]
  /\ lock = 0

LimiterInit ==
  /\ apiKey = TRUE
  /\ UploadInit
  /\ now = 0
  /\ queue = <<>>
  /\ isProcessing = FALSE
  /\ frames = {}
  /\ timers = {}
  /\ tasks = <<>>
  /\ promises = <<>>
  /\ microtasks = <<>>

LimiterNext == CallerAdd \/ TaskResolves \/ TaskRejects \/ TimerFire \/ Tick

LimiterSpec == LimiterInit /\ [][LimiterNext]_vars

\* The RateLimiter under the scheduling the event loop gives it: a due timer
\* is run, time passes while something is timed, and (the premise of the
\* progress property) a task that is executing settles.
LimiterFairSpec ==
  /\ LimiterSpec
  /\ WF_vars(TimerFire)
  /\ WF_vars(Tick)
  /\ WF_vars(TaskResolves \/ TaskRejects)

\* ------------------------------------------------- POST /api/boq/upload-boq
ErrorResponse(status) ==
  [status |-> status, hasItems |-> FALSE, processedItems |-> << >>, projectTotal |-> 0]

\* The request arrives; without a file it is answered 400 at once, with one
\* db.connect() resolves and SELECT * FROM rates is sent.
Request(u) ==
  /\ Idle
  /\ up[u].pc = "idle"
  /\ \/ \E f \in Files : up' = [up EXCEPT ![u].pc = "rates", ![u].file = f]
     \/ up' = [up EXCEPT ![u].pc = "noFile", ![u].response = ErrorResponse(400)]
  /\ UNCHANGED <<probe, now, limVars, apiKey, boq_items, txn, lock>>

\* The rates arrive; parseAndMatchBOQ runs to its first await or to its end.
RatesFetched(u) ==
  /\ Idle
  /\ up[u].pc = "rates"
  /\ LET R == parseAndMatchBOQ([up[u] EXCEPT !.ratesData = Catalog], u, LimiterState, apiKey)
     IN /\ up' = [up EXCEPT ![u] = R.up]
        /\ SetLimiter(R.lim)
  /\ UNCHANGED <<probe, now, apiKey, boq_items, txn, lock>>

\* Microtask: the task of a keyless upload has resolved at once.
SettleImmediate ==
  /\ microtasks # << >>
  /\ Head(microtasks).kind = "settle"
  /\ \E e \in frames :
       /\ e.task = Head(microtasks).task
       /\ SetLimiter(Settle([LimiterState EXCEPT !.microtasks = Tail(@)], e,
                            getAiRateSuggestion(apiKey, NoReply)))
  /\ UNCHANGED <<probe, now, upVars>>

\* Macrotask: the external call of the executing task comes back.
AdvisorReplies ==
  /\ Idle
  /\ \E e \in frames : \E reply \in Replies :
       /\ tasks[e.task].owner # 0
       /\ tasks[e.task].behaviour = "async"
       /\ SetLimiter(Settle(LimiterState, e, getAiRateSuggestion(apiKey, reply)))
  /\ UNCHANGED <<probe, now, upVars>>

\* Microtask: the upload awaiting a settled add() promise goes on with its rows.
ResumeRows ==
  /\ microtasks # << >>
  /\ Head(microtasks).kind = "resume"
  /\ LET u == tasks[Head(microtasks).task].owner
         R == resumeRow(up[u], u, [LimiterState EXCEPT !.microtasks = Tail(@)], apiKey)
     IN /\ up[u].pc = "ai"
        /\ up' = [up EXCEPT ![u] = R.up]
        /\ SetLimiter(R.lim)
  /\ UNCHANGED <<probe, now, apiKey, boq_items, txn, lock>>

\* BEGIN is acknowledged; TRUNCATE is sent.
BeginDone(u) ==
  /\ Idle
  /\ up[u].pc = "begin"
  /\ txn' = [txn EXCEPT ![u].open = TRUE]
  /\ up' = [up EXCEPT ![u].pc = "truncate"]
  /\ UNCHANGED <<probe, now, limVars, apiKey, boq_items, lock>>

\* TRUNCATE TABLE boq_items RESTART IDENTITY takes the table lock, which it
\* waits for, and empties the table in the transaction.
TruncateDone(u) ==
  /\ Idle
  /\ up[u].pc = "truncate"
  /\ lock = 0
  /\ lock' = u
  /\ txn' = [txn EXCEPT ![u].truncated = TRUE, ![u].snapshot = boq_items, ![u].rows = << >>]
  /\ up' = [up EXCEPT ![u].pc = IF Len(up[u].processedItems) > 0 THEN "insert" ELSE "commit",
                      ![u].insIdx = 1]
  /\ UNCHANGED <<probe, now, limVars, apiKey, boq_items>>

StoredRow(id, item) ==
  [id |-> id, description |-> item.description, quantity |-> item.quantity,
   unit |-> item.unit, rate |-> item.rate, total |-> item.total]

\* Faulty variant: the rows are inserted in front of the ones already inserted.
insertRowInFront(rows, item) == <<StoredRow(Len(rows) + 1, item)>> \o rows

\* INSERT INTO boq_items: the new row takes the next id of the restarted sequence.
insertRow(rows, item) == Append(rows, StoredRow(Len(rows) + 1, item))

InsertDone(u) ==
  /\ Idle
  /\ up[u].pc = "insert"
  /\ txn' = [txn EXCEPT ![u].rows = insertRow(@, up[u].processedItems[up[u].insIdx])]
  /\ up' = [up EXCEPT ![u].insIdx = @ + 1,
                      ![u].pc = IF up[u].insIdx + 1 > Len(up[u].processedItems)
                                THEN "commit" ELSE "insert"]
  /\ UNCHANGED <<probe, now, limVars, apiKey, boq_items, lock>>

\* Faulty variant: the commit adds the new rows to the ones stored before.
committedRowsKeepOld(t, stored) == IF t.truncated THEN stored \o t.rows ELSE stored

\* What COMMIT makes of the table.
committedRows(t, stored) == IF t.truncated THEN t.rows ELSE stored

\* COMMIT is acknowledged; res.json({ processedItems, projectTotal }).
CommitDone(u) ==
  /\ Idle
  /\ up[u].pc = "commit"
  /\ boq_items' = committedRows(txn[u], boq_items)
  /\ lock' = IF lock = u THEN 0 ELSE lock
  /\ txn' = [txn EXCEPT ![u] = NoTxn]
  /\ up' = [up EXCEPT ![u].pc = "done",
                      ![u].response = [status |-> 200, hasItems |-> TRUE,
                                       processedItems |-> up[u].processedItems,
                                       projectTotal |-> up[u].projectTotal]]
  /\ UNCHANGED <<probe, now, limVars, apiKey>>

\* A query of the handler's try block fails: the catch block sends ROLLBACK.
QueryFails(u) ==
  /\ Idle
  /\ up[u].pc \in {"rates", "begin", "truncate", "insert", "commit"}
  /\ up' = [up EXCEPT ![u].pc = "rollback", ![u].error = up[u].pc]
  /\ UNCHANGED <<probe, now, limVars, apiKey, boq_items, txn, lock>>

\* Faulty variant: the rollback leaves the rows of the aborted transaction in the table.
rolledBackRowsKeepNew(t, stored) == IF t.truncated THEN t.rows ELSE stored

\* What ROLLBACK makes of the table.
rolledBackRows(t, stored) == stored

\* ROLLBACK is acknowledged; sendError answers 500.
RollbackDone(u) ==
  /\ Idle
  /\ up[u].pc = "rollback"
  /\ boq_items' = rolledBackRows(txn[u], boq_items)
  /\ lock' = IF lock = u THEN 0 ELSE lock
  /\ txn' = [txn EXCEPT ![u] = NoTxn]
  /\ up' = [up EXCEPT ![u].pc = "failed", ![u].response = ErrorResponse(500)]
  /\ UNCHANGED <<probe, now, limVars, apiKey>>

Init ==
  /\ apiKey \in BOOLEAN
  /\ UploadInit
  /\ now = 0
  /\ queue = << >>
  /\ isProcessing = FALSE
  /\ frames = {}
  /\ timers = {}
  /\ tasks = << >>
  /\ promises = << >>
  /\ microtasks = << >>

Next ==
  \/ \E u \in Uploads : Request(u)
  \/ \E u \in Uploads : RatesFetched(u)
  \/ SettleImmediate
  \/ AdvisorReplies
  \/ ResumeRows
  \/ \E u \in Uploads : BeginDone(u)
  \/ \E u \in Uploads : TruncateDone(u)
  \/ \E u \in Uploads : InsertDone(u)
  \/ \E u \in Uploads : CommitDone(u)
  \/ \E u \in Uploads : QueryFails(u)
  \/ \E u \in Uploads : RollbackDone(u)
  \/ TimerFire
  \/ Tick

Spec == Init /\ [][Next]_vars

\* ------------------------------------------- the pure functions on their own
\* One call of one function: the argument is drawn in the initial state from
\* the sets below, the action applies the function to it.
NewProbe(fn, arg) == [fn |-> fn, arg |-> arg, applied |-> FALSE, out |-> << >>]

\* Replies of the advisor: what may stand before and after the JSON text, and
\* the JSON text itself with what a reader of it finds (numeric: it is an
\* object whose rate is a number; rate: that number).
AdvisorPrefixes == {<< >>, <<Tok("fenceJson"), Tok("ws")>>, <<Tok("fence")>>}
AdvisorSuffixes == {<< >>, <<Tok("ws"), Tok("fence")>>, <<Tok("ws"), Tok("word")>>}

AdvisorBodies ==
  << [text |-> << >>, numeric |-> FALSE, rate |-> 0],
     [text |-> txtRateObject(Num(850000)), numeric |-> TRUE, rate |-> 850000],
     [text |-> txtRateObject(Num(0)), numeric |-> TRUE, rate |-> 0],
     [text |-> txtRateObject(Str("8500")), numeric |-> FALSE, rate |-> 0],
     [text |-> txtRateObject(Tok("null")), numeric |-> FALSE, rate |-> 0],
     [text |-> <<Tok("{"), Str("price"), Tok(":"), Num(850000), Tok("}")>>,
      numeric |-> FALSE, rate |-> 0],
     [text |-> <<Tok("{"), Str("unit"), Tok(":"), Str("m2"), Tok(","), Tok("ws"),
                 Str("rate"), Tok(":"), Tok("ws"), Num(120000), Tok("}")>>,
      numeric |-> TRUE, rate |-> 120000],
     [text |-> <<Tok("{"), Str("rate"), Tok(":"), Num(1), Tok(","),
                 Str("rate"), Tok(":"), Str("x"), Tok("}")>>,
      numeric |-> FALSE, rate |-> 0],
     [text |-> <<Num(850000)>>, numeric |-> FALSE, rate |-> 0],
     [text |-> <<Tok("{"), Str("rate"), Tok(":"), Num(850000)>>, numeric |-> FALSE, rate |-> 0],
     [text |-> <<Tok("{"), Tok("}")>>, numeric |-> FALSE, rate |-> 0],
     [text |-> <<Tok("word"), Tok("ws"), Num(850000), Tok("ws"), Tok("word")>>,
      numeric |-> FALSE, rate |-> 0] >>

AdvisorInputs ==
  {[geminiApiKey |-> k, status |-> s, prefix |-> p, body |-> b, suffix |-> x] :
     k \in BOOLEAN, s \in {"ok", "error"}, p \in AdvisorPrefixes,
     b \in 1..Len(AdvisorBodies), x \in AdvisorSuffixes}

ReplyOf(a) ==
  [status |-> a.status,
   text |-> IF a.status = "ok" THEN a.prefix \o AdvisorBodies[a.body].text \o a.suffix
            ELSE << >>]

ApplyGetAiRateSuggestion ==
  /\ probe.fn = "getAiRateSuggestion"
  /\ ~probe.applied
  /\ probe' = [probe EXCEPT !.applied = TRUE,
                            !.out = getAiRateSuggestion(probe.arg.geminiApiKey,
                                                        ReplyOf(probe.arg))]
  /\ UNCHANGED <<now, limVars, upVars>>

\* Cells of a spreadsheet row.  A quantity cell comes with the number a
\* reader finds at its start (<< >>: none).
DescriptionCells == {<< >>, <<" ">>, txtBrickMasonryWalls, txtMasonryWall, txtTimberDoor,
                     txtCementBags, txtSolar}

QuantityCells ==
  << [cell |-> << >>, value |-> << >>],
     [cell |-> <<"n", "/", "a">>, value |-> << >>],
     [cell |-> <<"0">>, value |-> <<0>>],
     [cell |-> <<"8", "5", "0">>, value |-> <<850>>],
     [cell |-> <<"-", "1">>, value |-> <<0 - 1>>],
     [cell |-> <<"1", "2", "m">>, value |-> <<12>>],
     [cell |-> <<" ", "7">>, value |-> <<7>>] >>

UnitCells == {<< >>, <<" ">>, txtM2, txtM2Upper, txtBag, <<"B", "A", "G">>, txtUnit}

RowInputs ==
  {[description |-> d, quantity |-> q, unit |-> un] :
     d \in DescriptionCells, q \in 1..Len(QuantityCells), un \in UnitCells}

RowOf(a) == <<<<"1">>, a.description, QuantityCells[a.quantity].cell, a.unit>>

\* The head of the loop body: the four fields and the test for `continue`.
ApplyParseRow ==
  /\ probe.fn = "parseRow"
  /\ ~probe.applied
  /\ probe' = [probe EXCEPT !.applied = TRUE,
                            !.out = [row |-> parseRow(RowOf(probe.arg)),
                                     retained |-> isRetained(parseRow(RowOf(probe.arg)))]]
  /\ UNCHANGED <<now, limVars, upVars>>

\* The rates as SELECT * FROM rates may return them: in either order.
RatesOrders == <<Catalog, <<Catalog[3], Catalog[2], Catalog[1]>> >>

MatchInputs ==
  {[description |-> d, unit |-> un, ratesData |-> o] :
     d \in {c \in DescriptionCells : trim(c) # << >>},
     un \in {c \in UnitCells : trim(c) # << >>},
     o \in 1..Len(RatesOrders)}

\* The matching block on the description and unit of a retained row.
ApplyMatchRate ==
  /\ probe.fn = "matchRate"
  /\ ~probe.applied
  /\ probe' = [probe EXCEPT !.applied = TRUE,
                            !.out = matchRate(trim(probe.arg.description),
                                              toLowerCase(trim(probe.arg.unit)),
                                              RatesOrders[probe.arg.ratesData])]
  /\ UNCHANGED <<now, limVars, upVars>>

\* Texts given to tokenize: the descriptions, names and keywords above, and
\* every text of up to MaxTextLen characters over a few letters, a blank, a
\* comma and a letter outside ASCII.
txtStrasse == <<"S", "t", "r", "a", "ß", "e", " ", "2">>
txtTheWall == <<"T", "H", "E", " ", "w", "a", "l", "l", ",", " ", "W", "A", "L", "L", " ", "w", "A", "l", "L">>

TextAlphabet == {"a", "W", "l", "ß", " ", ","}

TokenizeTexts ==
  {txtBrickwork, txtBrickWallMasonry, txtBrickMasonryWalls, txtCementBags, txtSolar,
   txtTimberDoor, txtMasonryWall, txtOldItem, txtStrasse, txtTheWall}
    \cup UNION {[1..n -> TextAlphabet] : n \in 0..MaxTextLen}

\* The upper-cased form of a text (String.prototype.toUpperCase): "ß" has no
\* upper-case letter of its own and becomes "SS".
toUpperCaseChar(c) ==
  IF \E k \in 1..26 : LowerCase[k] = c
  THEN <<UpperCase[CHOOSE k \in 1..26 : LowerCase[k] = c]>>
  ELSE IF c = "ß" THEN <<"S", "S">>
  ELSE <<c>>

RECURSIVE toUpperCase(_)
toUpperCase(text) ==
  IF text = << >> THEN << >> ELSE toUpperCaseChar(Head(text)) \o toUpperCase(Tail(text))

\* A text together with its upper-cased form.
TokenizeInputs == {[text |-> t, upper |-> toUpperCase(t)] : t \in TokenizeTexts}

\* tokenize called twice on the text and once on its upper-cased form.
ApplyTokenize ==
  /\ probe.fn = "tokenize"
  /\ ~probe.applied
  /\ probe' = [probe EXCEPT !.applied = TRUE,
                            !.out = [tokens |-> tokenize(probe.arg.text),
                                     again |-> tokenize(probe.arg.text),
                                     upper |-> tokenize(probe.arg.upper)]]
  /\ UNCHANGED <<now, limVars, upVars>>

PureInit ==
  /\ probe \in {NewProbe("getAiRateSuggestion", a) : a \in AdvisorInputs}
                \cup {NewProbe("parseRow", a) : a \in RowInputs}
                \cup {NewProbe("matchRate", a) : a \in MatchInputs}
                \cup {NewProbe("tokenize", a) : a \in TokenizeInputs}
  /\ apiKey = TRUE
  /\ up = [u \in Uploads |-> NewUpload]
  /\ boq_items = SeedItems
  /\ txn = [u \in Uploads |-> NoTxn]
  /\ lock = 0
  /\ now = 0
  /\ queue = << >>
  /\ isProcessing = FALSE
  /\ frames = {}
  /\ timers = {}
  /\ tasks = << >>
  /\ promises = << >>
  /\ microtasks = << >>

PureNext ==
  \/ ApplyGetAiRateSuggestion
  \/ ApplyParseRow
  \/ ApplyMatchRate
  \/ ApplyTokenize

PureSpec == PureInit /\ [][PureNext]_vars

\* ==================================================================
\* Properties of the RateLimiter (LimiterSpec)
\* ==================================================================
TaskIds == 1..Len(tasks)
Started == {i \in TaskIds : tasks[i].exec # "queued"}
Executing == {i \in TaskIds : tasks[i].exec = "running"}
Done == {i \in TaskIds : tasks[i].exec = "done"}
Failed == {i \in Done : tasks[i].outcome.kind = "err"}
Queued == {queue[k].task : k \in 1..Len(queue)}

\* C1: at most one task of the RateLimiter is executing at any moment, and a
\* started task is the only one that has started and not yet settled.
C1_OneAtATime ==
  /\ Cardinality(Executing) <= 1
  /\ Cardinality(frames) <= 1
  /\ \A i \in Executing : \A j \in Started \ {i} : tasks[j].exec = "done"

C1_Witness ==
  /\ Cardinality(Executing) = 1
  /\ Len(queue) >= 1
  /\ Done # {}

\* C2: a task starts no earlier than minDelayMs after the previously executed
\* task settled (resolved or rejected), so the start times of two executed
\* tasks are at least minDelayMs apart.
Precedes(i, j) ==
  /\ tasks[i].exec = "done"
  /\ tasks[j].startAt >= tasks[i].settledAt + minDelayMs
  /\ tasks[j].startAt >= tasks[i].startAt + minDelayMs

C2_CooldownBetweenTasks ==
  \A i \in Started : \A j \in Started \ {i} : Precedes(i, j) \/ Precedes(j, i)

C2_Witness ==
  \E i \in Failed : \E j \in Started : \E k \in Started :
     /\ tasks[i].settledAt > tasks[i].startAt
     /\ tasks[j].startAt = tasks[i].settledAt + minDelayMs
     /\ tasks[j].exec = "done" /\ tasks[j].outcome.kind = "ok"
     /\ tasks[k].startAt >= tasks[j].settledAt + minDelayMs

\* C3: tasks start and settle in the order of the add() calls: when a task has
\* started, every task added before it has started earlier and its promise
\* has settled.
C3_Fifo ==
  \A j \in Started : \A i \in 1..(j - 1) :
     /\ tasks[i].exec = "done"
     /\ promises[i].state # "pending"
     /\ tasks[i].startAt < tasks[j].startAt
     /\ tasks[i].settledAt <= tasks[j].startAt

C3_Witness ==
  /\ Len(tasks) = MaxTasks
  /\ Started = TaskIds
  /\ \E i \in TaskIds : tasks[i].behaviour = "throws"
  /\ \E i \in TaskIds : tasks[i].behaviour = "async" /\ tasks[i].exec = "done"

\* C4: a failed task rejects its own promise and no other; every promise is
\* settled once, by the outcome of its own task; and after a failure the
\* cooldown timer is armed, so that the next pending task is started
\* minDelayMs later.
LastSettled(i) == i \in Done /\ \A j \in Done : tasks[j].settledAt <= tasks[i].settledAt

C4_FailureIsolated ==
  /\ \A i \in TaskIds :
       /\ i \notin Done => promises[i].state = "pending" /\ promises[i].settles = 0
       /\ i \in Failed => promises[i].state = "rejected" /\ promises[i].settles = 1
       /\ i \in Done \ Failed =>
            /\ promises[i].state = "resolved"
            /\ promises[i].settles = 1
            /\ promises[i].value = tasks[i].value
  /\ \A i \in Failed :
       (LastSettled(i) /\ Executing = {} /\ queue # << >>) =>
          (tasks[i].settledAt + minDelayMs) \in timers

C4_Witness ==
  \E i \in Failed : \E j \in Done \ Failed :
     /\ j > i
     /\ tasks[j].startAt = tasks[i].settledAt + minDelayMs
     /\ promises[i].state = "rejected"
     /\ promises[j].state = "resolved" /\ promises[j].value = tasks[j].value

\* C17: a task leaves the queue only by being started and a promise is
\* settled only by the outcome of its own task (nothing cancels or times out
\* an enqueued task); and, every executing task settling in the end, every
\* enqueued task is started and its promise settled, as long as the clock of
\* the model has not reached its horizon.
ClockExhausted == now + TickMs > MaxTicks * TickMs

Enqueued(i) == i <= Len(tasks)

Settled(i) ==
  /\ i <= Len(tasks)
  /\ tasks[i].exec = "done"
  /\ tasks[i].starts = 1
  /\ promises[i].state # "pending"

NoCancel ==
  \A i \in TaskIds :
     /\ tasks[i].exec = "queued" => tasks'[i].exec \in {"queued", "running", "done"}
     /\ tasks[i].exec = "queued" /\ tasks'[i].exec = "queued" => i \in {queue'[k].task : k \in 1..Len(queue')}
     /\ promises[i].state = "pending" /\ promises'[i].state # "pending" =>
           /\ tasks'[i].exec = "done"
           /\ tasks'[i].starts = 1
           /\ (promises'[i].state = "rejected") = (tasks'[i].outcome.kind = "err")

C17_EveryTaskSettles ==
  /\ [][NoCancel]_vars
  /\ \A i \in 1..MaxTasks : Enqueued(i) ~> (Settled(i) \/ ClockExhausted)

C17_Witness ==
  /\ Len(tasks) = MaxTasks
  /\ \A i \in TaskIds : Settled(i)
  /\ ~ClockExhausted
  /\ \E i \in TaskIds : tasks[i].startAt > 0 /\ tasks[i].behaviour = "async"
  /\ \E i \in TaskIds : promises[i].state = "rejected"

\* C27: every task passed to add is executed once, and the promise add
\* returned for it is settled once, with the outcome of that task: a task is
\* in the queue, executing or done, never in two of these and never in none;
\* the promise of a task that has not finished is pending, the promise of a
\* finished task was settled one time and carries that task's own outcome.
InOnePlace(i) ==
  LET q == Cardinality({k \in 1..Len(queue) : queue[k].task = i})
      f == Cardinality({e \in frames : e.task = i})
  IN /\ tasks[i].exec = "queued"  => q = 1 /\ f = 0
     /\ tasks[i].exec = "running" => q = 0 /\ f = 1
     /\ tasks[i].exec = "done"    => q = 0 /\ f = 0

OwnOutcome(i) ==
  /\ tasks[i].outcome.kind = "err" =>
        promises[i].state = "rejected" /\ promises[i].value = tasks[i].outcome.value
  /\ tasks[i].outcome.kind # "err" =>
        /\ promises[i].state = "resolved"
        /\ promises[i].value = tasks[i].outcome.value
        /\ promises[i].value = tasks[i].value
        /\ \A j \in TaskIds \ {i} : promises[i].value # tasks[j].value

C27_ExactlyOnce ==
  /\ Len(promises) = Len(tasks)
  /\ \A k \in 1..Len(queue) :
        queue[k].resolve = queue[k].task /\ queue[k].reject = queue[k].task
  /\ \A e \in frames : e.resolve = e.task /\ e.reject = e.task
  /\ \A i \in TaskIds :
        /\ InOnePlace(i)
        /\ tasks[i].exec = "queued" => tasks[i].starts = 0
        /\ tasks[i].exec # "queued" => tasks[i].starts = 1
        /\ tasks[i].exec # "done" =>
              promises[i].state = "pending" /\ promises[i].settles = 0
        /\ tasks[i].exec = "done" => promises[i].settles = 1 /\ OwnOutcome(i)

C27_Witness ==
  /\ Len(tasks) = 3
  /\ Done = {1, 2}
  /\ Executing = {3}
  /\ promises[1].state = "rejected" /\ promises[1].settles = 1
  /\ promises[2] = [state |-> "resolved", value |-> <<102>>, settles |-> 1]
  /\ promises[3].state = "pending"

\* C28: whenever control is back in the event loop, a non-empty queue comes
\* with isProcessing set, and isProcessing set comes with a task executing
\* or a cooldown timer armed whose callback calls process(): pending tasks
\* are never left with nothing scheduled to serve them.
C28_PendingImpliesScheduled ==
  /\ queue # << >> => isProcessing
  /\ isProcessing => frames # {} \/ timers # {}
  /\ frames # {} \/ timers # {} => isProcessing
  /\ Cardinality(frames) + Cardinality(timers) <= 1

C28_Witness ==
  /\ Len(queue) = 2
  /\ isProcessing
  /\ frames = {}
  /\ \E due \in timers : due > now

\* ==================================================================
\* Properties of the uploads (Spec)
\* ==================================================================

\* C5: the advisor calls of all uploads go through the one queue: any two
\* calls, of the same or of different uploads, never overlap and start at
\* least minDelayMs apart.
AdvisorCalls == {i \in Started : tasks[i].owner \in Uploads /\ tasks[i].behaviour = "async"}

CallBefore(i, j) ==
  /\ tasks[i].exec = "done"
  /\ tasks[i].settledAt <= tasks[j].startAt
  /\ tasks[j].startAt - tasks[i].startAt >= minDelayMs

C5_CrossUploadSerialized ==
  /\ \A i \in AdvisorCalls : \A j \in AdvisorCalls \ {i} : CallBefore(i, j) \/ CallBefore(j, i)
  /\ Cardinality({i \in AdvisorCalls : tasks[i].exec = "running"}) <= 1

C5_Witness ==
  \E i \in AdvisorCalls : \E j \in AdvisorCalls : \E k \in AdvisorCalls :
     /\ i < j /\ j < k
     /\ tasks[i].owner # tasks[j].owner
     /\ tasks[k].owner = tasks[i].owner
     /\ tasks[j].startAt = tasks[i].startAt + minDelayMs

\* C6: the step that commits an upload's transaction leaves in boq_items
\* exactly the items of that upload's response, one row per item in the
\* order of the items, numbered from 1, and so none of the rows stored before.
RowOfItem(row, item, k) ==
  /\ row.id = k
  /\ row.description = item.description
  /\ row.quantity = item.quantity
  /\ row.unit = item.unit
  /\ row.rate = item.rate
  /\ row.total = item.total

HoldsExactly(stored, items) ==
  /\ Len(stored) = Len(items)
  /\ \A k \in 1..Len(items) : RowOfItem(stored[k], items[k], k)

Commits(u) == up[u].pc = "commit" /\ up'[u].pc = "done"

C6_CommitReplacesStore ==
  [][\A u \in Uploads : Commits(u) =>
        /\ up'[u].response.status = 200
        /\ up'[u].response.processedItems = up[u].processedItems
        /\ HoldsExactly(boq_items', up'[u].response.processedItems)]_vars

C6_Witness ==
  \E u \in Uploads : \E v \in Uploads \ {u} :
     /\ up[u].pc = "done" /\ up[v].pc = "done"
     /\ up[u].file # up[v].file
     /\ Len(up[u].response.processedItems) = 2
     /\ Len(up[v].response.processedItems) = 2
     /\ HoldsExactly(boq_items, up[u].response.processedItems)

\* C7: when an insert fails, the rollback leaves boq_items as it was when the
\* upload's TRUNCATE ran (nothing deleted, nothing of the new batch added),
\* and the caller is answered 500 with no priced items.
RollsBack(u) == up[u].pc = "rollback" /\ up'[u].pc = "failed"

HasCatalogMatch(row) ==
  \E n \in 1..Len(Catalog) :
     /\ toLowerCase(Catalog[n].unit) = toLowerCase(trim(row[4]))
     /\ tokenize(trim(row[2])) \cap
          (tokenize(Catalog[n].item_name) \cup tokenize(Catalog[n].keywords)) # {}

SampleRows == <<rowBrick, rowNoQuantity, rowSolar, rowTimber, rowNoDescription>>
CatalogMatched == SelectSeq(SampleRows, LAMBDA row : HasCatalogMatch(row))

AdvisorGaveRate(u, k) ==
  \E i \in TaskIds :
     /\ tasks[i].owner = u
     /\ tasks[i].row = k
     /\ tasks[i].exec = "done"
     /\ tasks[i].outcome.kind = "ok"
     /\ tasks[i].outcome.value # << >>

SourceRow(u, item) ==
  CHOOSE k \in 1..Len(up[u].file) : trim(up[u].file[k][1]) = item.item_no

RateRule(u, item) ==
  LET k == SourceRow(u, item)
      priced == \/ \E n \in 1..Len(CatalogMatched) : CatalogMatched[n] = up[u].file[k]
                \/ AdvisorGaveRate(u, k)
  IN /\ item.rate # << >> <=> priced
     /\ ~priced => item.rate = << >> /\ item.total = << >> /\ ~item.isAiSuggestion

C8_RateNonNullIffPriced ==
  \A u \in Uploads :
     /\ \A n \in 1..Len(up[u].processedItems) : RateRule(u, up[u].processedItems[n])
     /\ \A n \in 1..Len(up[u].response.processedItems) :
           RateRule(u, up[u].response.processedItems[n])

C8_Witness ==
  \E u \in Uploads : \E v \in Uploads :
     /\ up[u].pc = "done" /\ up[v].pc = "done"
     /\ \E n \in 1..Len(up[u].response.processedItems) :
           /\ up[u].response.processedItems[n].source = "Manual"
           /\ up[u].response.processedItems[n].rate = << >>
     /\ \E n \in 1..Len(up[u].response.processedItems) :
           /\ up[u].response.processedItems[n].source = "AI Estimate"
           /\ up[u].response.processedItems[n].rate = <<0>>
     /\ \E n \in 1..Len(up[v].response.processedItems) :
           up[v].response.processedItems[n].source = "Database"

\* C9: projectTotal is the sum of the non-null totals of the items, while the
\* rows are priced and in the result the handler returns.
RECURSIVE SumOfTotals(_)
SumOfTotals(items) ==
  IF items = << >> THEN 0
  ELSE (IF Head(items).total = << >> THEN 0 ELSE Head(items).total[1])
         + SumOfTotals(Tail(items))

C9_ProjectTotalIsSum ==
  \A u \in Uploads :
     /\ up[u].projectTotal = SumOfTotals(up[u].processedItems)
     /\ up[u].response.projectTotal = SumOfTotals(up[u].response.processedItems)

C9_Witness ==
  \E u \in Uploads :
     /\ up[u].pc = "done"
     /\ up[u].response.projectTotal > 0
     /\ \E n \in 1..Len(up[u].response.processedItems) :
           /\ up[u].response.processedItems[n].isAiSuggestion
           /\ up[u].response.processedItems[n].total[1] > 0
     /\ \E n \in 1..Len(up[u].response.processedItems) :
           up[u].response.processedItems[n].total = << >>

\* C10: the items priced so far, the items returned and the rows inserted are
\* in the order of their rows in the spreadsheet: each is a prefix of the
\* sequence of retained rows, whichever rows waited for the queue.
RetainedRows(file) ==
  LET kept == SelectSeq(file, LAMBDA row : /\ trim(row[2]) # << >>
                                           /\ parseFloat(row[3]) # << >>
                                           /\ trim(row[4]) # << >>)
  IN [k \in 1..Len(kept) |-> [description |-> trim(kept[k][2]),
                               quantity |-> parseFloat(kept[k][3])[1]]]

RetainedOf == [f \in Files \ {Unparsable} |-> RetainedRows(f)]

InRowOrder(u, seq) ==
  LET rows == RetainedOf[up[u].file]
  IN /\ Len(seq) <= Len(rows)
     /\ \A k \in 1..Len(seq) :
           /\ seq[k].description = rows[k].description
           /\ seq[k].quantity = rows[k].quantity

C10_SpreadsheetOrder ==
  \A u \in Uploads :
     up[u].file \in DOMAIN RetainedOf =>
        /\ InRowOrder(u, up[u].processedItems)
        /\ InRowOrder(u, up[u].response.processedItems)
        /\ InRowOrder(u, txn[u].rows)
        /\ \A k \in 1..Len(txn[u].rows) : txn[u].rows[k].id = k
        /\ up[u].pc = "done" =>
              Len(up[u].response.processedItems) = Len(RetainedOf[up[u].file])

C10_Witness ==
  \E u \in Uploads : \E v \in Uploads \ {u} :
     /\ up[u].pc = "done"
     /\ Len(up[u].response.processedItems) = 2
     /\ up[u].response.processedItems[1].source = "Database"
     /\ up[u].response.processedItems[2].source = "AI Estimate"
     /\ HoldsExactly(boq_items, up[u].response.processedItems)
     /\ \E i \in Done : \E j \in Done :
           /\ tasks[i].owner = v /\ tasks[j].owner = u
           /\ i < j

\* C11: for every row the loop has dealt with, the number of advisor tasks
\* enqueued for it is 1 when the row is retained and no catalog entry of its
\* unit shares a token with it, and 0 otherwise; no task is started twice, so
\* a failed or empty advisor answer is never asked for again.
RetainedSample == SelectSeq(SampleRows, LAMBDA row : isRetained(parseRow(row)))

InSample(rows, row) == \E n \in 1..Len(rows) : rows[n] = row

TasksOfRow(u, k) == {i \in TaskIds : tasks[i].owner = u /\ tasks[i].row = k}

RowReached(u, k) == k < up[u].rowIdx \/ (k = up[u].rowIdx /\ up[u].pc = "ai")

C11_OneTaskPerMiss ==
  /\ \A u \in Uploads : \A k \in 1..Len(up[u].file) :
        Cardinality(TasksOfRow(u, k)) =
           IF /\ RowReached(u, k)
              /\ InSample(RetainedSample, up[u].file[k])
              /\ ~InSample(CatalogMatched, up[u].file[k])
           THEN 1 ELSE 0
  /\ \A i \in TaskIds :
        /\ tasks[i].starts <= 1
        /\ tasks[i].owner \in Uploads
        /\ tasks[i].row \in 1..Len(up[tasks[i].owner].file)

C11_Witness ==
  \E u \in Uploads : \E i \in Done :
     /\ up[u].pc = "done"
     /\ tasks[i].owner = u
     /\ tasks[i].behaviour = "async"
     /\ tasks[i].outcome.value = << >>
     /\ TasksOfRow(u, tasks[i].row) = {i}
     /\ \E n \in 1..Len(up[u].response.processedItems) :
           up[u].response.processedItems[n].source = "Database"
     /\ \E k \in 1..Len(up[u].file) :
           ~InSample(RetainedSample, up[u].file[k]) /\ TasksOfRow(u, k) = {}

\* C12: an item whose row shares no token with the name or the keywords of
\* any catalog entry of its unit never has source "Database": it is an
\* "AI Estimate" carrying the advisor's rate, or "Manual" with a null rate.
NoOverlapSource(u, item) ==
  ~InSample(CatalogMatched, up[u].file[SourceRow(u, item)]) =>
     /\ item.source # "Database"
     /\ \/ /\ item.source = "AI Estimate"
           /\ item.isAiSuggestion
           /\ AdvisorGaveRate(u, SourceRow(u, item))
        \/ /\ item.source = "Manual"
           /\ item.rate = << >>

C12_NoOverlapNeverDatabase ==
  \A u \in Uploads :
     /\ \A n \in 1..Len(up[u].processedItems) : NoOverlapSource(u, up[u].processedItems[n])
     /\ \A n \in 1..Len(up[u].response.processedItems) :
           NoOverlapSource(u, up[u].response.processedItems[n])

C12_Witness ==
  \E u \in Uploads :
     /\ up[u].pc = "done"
     /\ up[u].file = <<rowTimber, rowNoDescription, rowSolar>>
     /\ Len(up[u].response.processedItems) = 2
     /\ up[u].response.processedItems[1].description = txtTimberDoor
     /\ up[u].response.processedItems[1].source = "AI Estimate"
     /\ up[u].response.processedItems[2].source = "Manual"
     /\ up[u].response.processedItems[2].rate = << >>

\* C13: when the advisor task of a row yields no suggestion, the run goes on:
\* once the upload has resumed, the row is among the items with rate null,
\* total null and source "Manual", it adds nothing to projectTotal, and when
\* the loop has ended every retained row, the later ones too, has its item.
NoSuggestion == {i \in Done : tasks[i].owner \in Uploads /\ tasks[i].outcome.value = << >>}

NotManual(items) == SelectSeq(items, LAMBDA item : item.source # "Manual")

IsManualItemOf(item, row) ==
  /\ item.item_no = trim(row[1])
  /\ item.description = trim(row[2])
  /\ item.rate = << >>
  /\ item.total = << >>
  /\ ~item.isAiSuggestion
  /\ item.source = "Manual"

C13_NoSuggestionGoesOn ==
  \A i \in NoSuggestion :
     LET u == tasks[i].owner
         items == up[u].processedItems
     IN up[u].awaiting # i =>
           /\ \E n \in 1..Len(items) : IsManualItemOf(items[n], up[u].file[tasks[i].row])
           /\ up[u].projectTotal = SumOfTotals(NotManual(items))
           /\ up[u].rowIdx > tasks[i].row
           /\ up[u].error # "parse"
           /\ up[u].pc # "ai" => Len(items) = Len(RetainedOf[up[u].file])
           /\ up[u].pc = "done" => up[u].response.processedItems = items

C13_Witness ==
  \E u \in Uploads : \E i \in NoSuggestion : \E j \in Done :
     /\ up[u].pc = "done"
     /\ apiKey
     /\ tasks[i].owner = u /\ tasks[j].owner = u
     /\ tasks[i].row < tasks[j].row
     /\ tasks[j].outcome.value # << >>
     /\ up[u].response.processedItems[1].source = "Manual"
     /\ up[u].response.processedItems[2].source = "AI Estimate"
     /\ up[u].response.projectTotal = up[u].response.processedItems[2].total[1]
     /\ up[u].response.projectTotal > 0

\* C15: when GEMINI_API_KEY is absent no advisor task of any upload issues
\* an external call: each resolves to null without awaiting anything, for
\* every missed row of every upload, and no item is an AI estimate.
C15_NoKeyNoCall ==
  ~apiKey =>
     /\ AdvisorCalls = {}
     /\ \A i \in TaskIds :
           /\ tasks[i].behaviour = "immediate"
           /\ tasks[i].exec = "done" =>
                 /\ tasks[i].outcome = Ok(<< >>)
                 /\ promises[i].state = "resolved"
     /\ \A u \in Uploads : \A n \in 1..Len(up[u].processedItems) :
           /\ up[u].processedItems[n].source # "AI Estimate"
           /\ ~up[u].processedItems[n].isAiSuggestion

C15_Witness ==
  /\ ~apiKey
  /\ \E u \in Uploads : \E v \in Uploads \ {u} :
        /\ up[u].pc = "done" /\ up[v].pc = "done"
        /\ Len(up[u].response.processedItems) = 2
        /\ up[u].response.processedItems[1].source = "Manual"
        /\ up[u].response.processedItems[2].source = "Manual"
        /\ \E n \in 1..Len(up[v].response.processedItems) :
              up[v].response.processedItems[n].source = "Manual"
        /\ Cardinality({i \in Done : tasks[i].owner = u}) = 2
        /\ \E i \in Done : tasks[i].owner = v

\* C16: for a file that cannot be parsed parseAndMatchBOQ returns normally,
\* with no items and projectTotal 0: the handler goes on to its transaction
\* with the empty result, no advisor task is enqueued, and an error answer,
\* if there is one, comes from a failed query.
ParseReturned(u) == up[u].pc \notin {"idle", "rates", "ai"} /\ up[u].error # "rates"

C16_UnparsableGivesEmpty ==
  \A u \in Uploads :
     (up[u].file = Unparsable /\ ParseReturned(u)) =>
        /\ up[u].processedItems = << >>
        /\ up[u].projectTotal = 0
        /\ up[u].error \in {"", "begin", "truncate", "commit"}
        /\ \A i \in TaskIds : tasks[i].owner # u
        /\ up[u].pc = "done" =>
              up[u].response = [status |-> 200, hasItems |-> TRUE,
                                processedItems |-> << >>, projectTotal |-> 0]

C16_Witness ==
  \E u \in Uploads :
     /\ up[u].file = Unparsable
     /\ up[u].pc = "done"
     /\ up[u].response.status = 200
     /\ up[u].response.processedItems = << >>
     /\ up[u].response.projectTotal = 0
     /\ boq_items = << >>

\* C21: an upload goes through its phases in order.  While a row is still
\* unread or waits for the advisor, its transaction is not open, nothing of
\* it is inserted and nothing is answered; the transaction is open only
\* when every row has been priced; and the one answer that carries items is
\* there only when the transaction has been committed and closed.
AllRowsPriced(u) ==
  /\ up[u].awaiting = 0
  /\ up[u].file = Unparsable \/ up[u].rowIdx > Len(up[u].file)
  /\ \A i \in TaskIds : tasks[i].owner = u => tasks[i].exec = "done"

C21_PhasesInOrder ==
  \A u \in Uploads :
     /\ up[u].pc \in {"idle", "rates", "ai"} =>
           /\ ~txn[u].open /\ ~txn[u].truncated /\ txn[u].rows = << >>
           /\ lock # u
           /\ up[u].response = NoResponse
     /\ (txn[u].open \/ txn[u].rows # << >>) =>
           /\ AllRowsPriced(u)
           /\ up[u].pc \in {"truncate", "insert", "commit", "rollback"}
           /\ up[u].response = NoResponse
     /\ up[u].response.hasItems =>
           /\ up[u].pc = "done"
           /\ AllRowsPriced(u)
           /\ ~txn[u].open /\ lock # u
           /\ up[u].response.status = 200
           /\ up[u].response.processedItems = up[u].processedItems
           /\ up[u].insIdx = Len(up[u].processedItems) + 1
     /\ (up[u].response # NoResponse) = (up[u].pc \in {"done", "failed", "noFile"})

C21_Witness ==
  \E u \in Uploads :
     /\ up[u].pc = "done"
     /\ Len(up[u].response.processedItems) = 2
     /\ Cardinality({i \in Done : tasks[i].owner = u}) = 2
     /\ HoldsExactly(boq_items, up[u].response.processedItems)

\* C22: in every item, priced so far, returned or stored, total is rate times
\* quantity when rate is not null and null when rate is null.  Amounts are in
\* hundredths: rate 15000.00 and quantity 10 give total 150000.00.
TotalRule(item) ==
  IF item.rate = << >> THEN item.total = << >>
  ELSE item.total = <<item.rate[1] * item.quantity>>

C22_TotalIsRateTimesQuantity ==
  /\ \A u \in Uploads :
        /\ \A n \in 1..Len(up[u].processedItems) : TotalRule(up[u].processedItems[n])
        /\ \A n \in 1..Len(up[u].response.processedItems) :
              TotalRule(up[u].response.processedItems[n])
        /\ \A n \in 1..Len(txn[u].rows) : TotalRule(txn[u].rows[n])
  /\ \A n \in 1..Len(boq_items) : TotalRule(boq_items[n])

C22_Witness ==
  \E u \in Uploads : \E n \in 1..Len(up[u].response.processedItems) :
     LET item == up[u].response.processedItems[n]
     IN /\ up[u].pc = "done"
        /\ item.description = txtSolar
        /\ item.isAiSuggestion
        /\ item.quantity = 10
        /\ item.rate = <<1500000>>
        /\ item.total = <<15000000>>
        /\ \E k \in 1..Len(up[u].response.processedItems) :
              up[u].response.processedItems[k].total = << >>

\* C23: the provenance fields of an item agree: isAiSuggestion is true
\* exactly when source is "AI Estimate", which is exactly when the advisor
\* task of its row returned a rate; source is "Manual" exactly when rate is
\* null; and an item priced from the catalog ("Database") is never flagged
\* as an AI suggestion.
ProvenanceRule(u, item) ==
  /\ item.source \in {"Database", "AI Estimate", "Manual"}
  /\ item.isAiSuggestion = (item.source = "AI Estimate")
  /\ (item.source = "AI Estimate") = AdvisorGaveRate(u, SourceRow(u, item))
  /\ (item.source = "Manual") = (item.rate = << >>)
  /\ item.source = "Database" =>
        /\ ~item.isAiSuggestion
        /\ InSample(CatalogMatched, up[u].file[SourceRow(u, item)])
        /\ TasksOfRow(u, SourceRow(u, item)) = {}

C23_ProvenanceAgrees ==
  \A u \in Uploads :
     /\ \A n \in 1..Len(up[u].processedItems) : ProvenanceRule(u, up[u].processedItems[n])
     /\ \A n \in 1..Len(up[u].response.processedItems) :
           ProvenanceRule(u, up[u].response.processedItems[n])

C23_Witness ==
  \E u \in Uploads : \E v \in Uploads \ {u} :
     /\ up[u].pc = "done" /\ up[v].pc = "done"
     /\ Len(up[u].response.processedItems) = 2
     /\ up[u].response.processedItems[1].source = "Database"
     /\ ~up[u].response.processedItems[1].isAiSuggestion
     /\ up[u].response.processedItems[2].source = "Manual"
     /\ ~up[u].response.processedItems[2].isAiSuggestion
     /\ Len(up[v].response.processedItems) = 2
     /\ up[v].response.processedItems[1].source = "AI Estimate"
     /\ up[v].response.processedItems[1].isAiSuggestion
     /\ up[v].response.processedItems[1].rate = <<0>>

\* C25: when parseAndMatchBOQ has caught an exception and returned the empty
\* result, the handler runs the replace transaction with no insert, and the
\* step that commits it leaves boq_items empty, whatever was stored before,
\* and answers 200 with no items and total 0.
C25_EmptyResultErasesStore ==
  [][\A u \in Uploads : (Commits(u) /\ up[u].file = Unparsable) =>
        /\ up[u].processedItems = << >>
        /\ txn[u].truncated
        /\ txn[u].rows = << >>
        /\ boq_items' = << >>
        /\ up'[u].response = [status |-> 200, hasItems |-> TRUE,
                              processedItems |-> << >>, projectTotal |-> 0]]_vars

C25_Witness ==
  \E u \in Uploads : \E v \in Uploads \ {u} :
     /\ up[u].file = Unparsable
     /\ up[u].pc = "done"
     /\ up[u].response.status = 200
     /\ up[v].pc = "done"
     /\ Len(up[v].response.processedItems) = 2
     /\ boq_items = << >>

\* C26: an upload has at most one task in the queue or executing, the one
\* its loop awaits; so between two consecutive tasks of one upload at most
\* one task of each other upload is served.
Unsettled(u) == {i \in TaskIds : tasks[i].owner = u /\ tasks[i].exec # "done"}

Consecutive(i, j) ==
  /\ i < j
  /\ tasks[i].owner = tasks[j].owner
  /\ \A k \in (i + 1)..(j - 1) : tasks[k].owner # tasks[i].owner

C26_RoundRobin ==
  /\ \A u \in Uploads :
        /\ Cardinality(Unsettled(u)) <= 1
        /\ Unsettled(u) # {} => up[u].pc = "ai" /\ Unsettled(u) = {up[u].awaiting}
  /\ \A i \in TaskIds : \A j \in TaskIds :
        Consecutive(i, j) =>
           \A v \in Uploads \ {tasks[i].owner} :
              Cardinality({k \in (i + 1)..(j - 1) : tasks[k].owner = v}) <= 1

C26_Witness ==
  \E u \in Uploads : \E v \in Uploads \ {u} :
     /\ Len(tasks) = 4
     /\ tasks[1].owner = u /\ tasks[2].owner = v
     /\ tasks[3].owner = u /\ tasks[4].owner = v
     /\ tasks[3].exec = "done"
     /\ tasks[3].startAt = tasks[2].startAt + minDelayMs
     /\ tasks[4].exec = "queued"

\* C29: without GEMINI_API_KEY a retained row with no catalog match still
\* gets its task in the shared queue; the task starts only after every task
\* added before it has settled, and no earlier than minDelayMs after the
\* task before it settled, although these tasks issue no external call.
C29_NoKeyStillThrottled ==
  ~apiKey =>
     /\ \A u \in Uploads : \A k \in 1..Len(up[u].file) :
           (/\ RowReached(u, k)
            /\ InSample(RetainedSample, up[u].file[k])
            /\ ~InSample(CatalogMatched, up[u].file[k]))
           => \E i \in TaskIds :
                 /\ TasksOfRow(u, k) = {i}
                 /\ tasks[i].behaviour = "immediate"
                 /\ tasks[i].exec # "done" => up[u].pc = "ai" /\ up[u].awaiting = i
     /\ \A j \in Started : \A i \in 1..(j - 1) :
           /\ tasks[i].exec = "done"
           /\ tasks[j].startAt >= tasks[i].settledAt + minDelayMs
     /\ \A j \in TaskIds \ Started : \A k \in 1..Len(queue) : \A l \in 1..Len(queue) :
           (queue[k].task < j /\ queue[l].task = j) => k < l

C29_Witness ==
  /\ ~apiKey
  /\ \E i \in Done : \E j \in Done : \E k \in TaskIds :
        /\ j = i + 1 /\ k = j + 1
        /\ tasks[i].settledAt = tasks[i].startAt
        /\ tasks[j].startAt = tasks[i].settledAt + minDelayMs
        /\ tasks[j].outcome = Ok(<< >>)
        /\ tasks[k].exec = "queued"
        /\ \E due \in timers : due = tasks[j].settledAt + minDelayMs /\ due > now

\* C30: two uploads whose transactions overlap leave a whole batch in
\* boq_items: the table never shows rows of an open transaction, only one
\* transaction at a time has truncated it, what it holds after any commit
\* is exactly the batch of an upload that committed, and every commit, also
\* one made while the other upload's transaction is open, replaces the
\* contents by the batch of the committing upload, so that after both have
\* committed the batch of the later one is stored.
Committed == {u \in Uploads : up[u].pc = "done"}

StoreIsWhole ==
  /\ \A u \in Uploads : txn[u].truncated => lock = u /\ txn[u].open
  /\ Committed = {} => boq_items = SeedItems
  /\ Committed # {} =>
        \E u \in Committed : HoldsExactly(boq_items, up[u].response.processedItems)

LastCommitWins ==
  \A u \in Uploads : \A v \in Uploads \ {u} :
     Commits(u) =>
        /\ HoldsExactly(boq_items', up[u].processedItems)
        /\ txn[v].open => txn'[v] = txn[v] /\ ~txn[v].truncated
        /\ up[v].pc = "done" => up'[v].pc = "done" /\ Committed' = Uploads

C30_OverlapLeavesOneBatch == []StoreIsWhole /\ [][LastCommitWins]_vars

C30_Witness ==
  \E u \in Uploads : \E v \in Uploads \ {u} :
     /\ txn[u].open /\ txn[v].open
     /\ up[u].pc = "commit" /\ lock = u
     /\ Len(up[u].processedItems) = 2
     /\ HoldsExactly(txn[u].rows, up[u].processedItems)
     /\ up[v].pc = "truncate"
     /\ Len(up[v].processedItems) = 2
     /\ up[v].file # up[u].file
     /\ boq_items = SeedItems

\* ==================================================================
\* Properties of the pure functions (PureSpec)
\* ==================================================================

\* C14: getAiRateSuggestion never throws: its promise always resolves, to
\* { rate } when the credential is set, the call came back and the reply
\* (code fences removed) parses to an object whose rate is a number, and to
\* null in every other case: network error, empty reply, unparseable reply,
\* rate that is not a number.  So no task of an upload rejects its promise.
UploadTasksNeverReject ==
  \A i \in TaskIds :
     tasks[i].owner \in Uploads =>
        /\ tasks[i].outcome.kind # "err"
        /\ promises[i].state # "rejected"

WellFormedReply(a) ==
  /\ a.status = "ok"
  /\ AdvisorBodies[a.body].numeric
  /\ \A k \in 1..Len(a.suffix) : a.suffix[k].t # "word"

C14_AdvisorNeverThrows ==
  /\ (probe.fn = "getAiRateSuggestion" /\ probe.applied) =>
        /\ probe.out.kind = "ok"
        /\ probe.out.value =
              IF probe.arg.geminiApiKey /\ WellFormedReply(probe.arg)
              THEN <<AdvisorBodies[probe.arg.body].rate>>
              ELSE << >>
  /\ UploadTasksNeverReject

C14_Witness ==
  /\ probe.fn = "getAiRateSuggestion"
  /\ probe.applied
  /\ probe.arg.geminiApiKey
  /\ probe.arg.status = "error"
  /\ probe.out = Ok(<< >>)

\* C18: a row is retained if and only if its description is not blank, its
\* quantity cell starts with a number that is greater than or equal to zero,
\* and its unit is not blank; a row with a negative quantity is dropped.
NotBlank(cell) == \E k \in 1..Len(cell) : cell[k] \notin WhiteSpace

C18_RetainedIffValid ==
  (probe.fn = "parseRow" /\ probe.applied) =>
     LET value == QuantityCells[probe.arg.quantity].value
     IN probe.out.retained <=>
           /\ NotBlank(probe.arg.description)
           /\ value # << >>
           /\ value[1] >= 0
           /\ NotBlank(probe.arg.unit)

\* What the code does with the same rows: the sign of the quantity is not looked at.
C18_RetainedIffNumber ==
  (probe.fn = "parseRow" /\ probe.applied) =>
     /\ probe.out.row.quantity = QuantityCells[probe.arg.quantity].value
     /\ probe.out.retained <=>
           /\ NotBlank(probe.arg.description)
           /\ QuantityCells[probe.arg.quantity].value # << >>
           /\ NotBlank(probe.arg.unit)

C18_Witness ==
  /\ probe.fn = "parseRow"
  /\ probe.applied
  /\ probe.arg.description = txtMasonryWall
  /\ probe.arg.unit = txtM2
  /\ QuantityCells[probe.arg.quantity].cell = <<"-", "1">>
  /\ probe.out.retained
  /\ probe.out.row.quantity[1] < 0

\* C19: the entry the matcher chooses has the unit of the row, letter case
\* aside; an entry of another unit is never chosen, whatever tokens it
\* shares with the description; and a row whose unit no entry has is a miss.
SameUnit(rate, cell) == toLowerCase(rate.unit) = toLowerCase(trim(cell))

C19_ChosenEntryHasRowUnit ==
  (probe.fn = "matchRate" /\ probe.applied) =>
     LET rates == RatesOrders[probe.arg.ratesData]
     IN /\ probe.out.bestMatch # << >> =>
              /\ SameUnit(probe.out.bestMatch[1], probe.arg.unit)
              /\ \E n \in 1..Len(rates) : rates[n] = probe.out.bestMatch[1]
        /\ (\A n \in 1..Len(rates) : ~SameUnit(rates[n], probe.arg.unit)) =>
              /\ probe.out.bestMatch = << >>
              /\ probe.out.highestScore = 0

C19_Witness ==
  /\ probe.fn = "matchRate"
  /\ probe.applied
  /\ probe.arg.description = txtCementBags
  /\ probe.arg.unit = txtM2Upper
  /\ probe.out.bestMatch = << >>

\* C20: the score of an entry of the row's unit is twice the number of
\* description tokens among its name tokens plus the number of description
\* tokens among its keyword tokens; the matcher returns the first entry, in
\* the order of the catalog, that has the highest score when that score is
\* positive, and no match when it is 0.
ClaimedScore(tokens, rate) ==
  2 * Cardinality({t \in tokens : t \in tokenize(rate.item_name)})
    + Cardinality({t \in tokens : t \in tokenize(rate.keywords)})

C20_FirstHighestScoreWins ==
  (probe.fn = "matchRate" /\ probe.applied) =>
     LET rates == RatesOrders[probe.arg.ratesData]
         tokens == tokenize(trim(probe.arg.description))
         sameUnit == {n \in 1..Len(rates) : SameUnit(rates[n], probe.arg.unit)}
         scores == {ClaimedScore(tokens, rates[n]) : n \in sameUnit} \cup {0}
         highest == CHOOSE m \in scores : \A x \in scores : x <= m
         first == CHOOSE n \in sameUnit :
                     /\ ClaimedScore(tokens, rates[n]) = highest
                     /\ \A k \in sameUnit : k < n => ClaimedScore(tokens, rates[k]) < highest
     IN /\ probe.out.highestScore = highest
        /\ probe.out.bestMatch = IF highest > 0 THEN <<rates[first]>> ELSE << >>

C20_Witness ==
  /\ probe.fn = "matchRate"
  /\ probe.applied
  /\ probe.arg.description = txtMasonryWall
  /\ probe.arg.unit = txtM2
  /\ probe.arg.ratesData = 2
  /\ probe.out.highestScore = 2
  /\ probe.out.bestMatch = <<Catalog[2]>>
  /\ ClaimedScore(tokenize(txtMasonryWall), Catalog[1]) = 2
  /\ ClaimedScore(tokenize(txtMasonryWall), Catalog[2]) = 2

\* C24: tokenizing a text twice gives the same token set, and tokenizing its
\* upper-cased form gives that set too.
C24_TokenizeIgnoresCase ==
  (probe.fn = "tokenize" /\ probe.applied) =>
     /\ probe.out.again = probe.out.tokens
     /\ probe.out.upper = probe.out.tokens

\* C24 as amended: the same, for a text all of whose characters are ASCII.
IsAscii(text) == \A k \in 1..Len(text) : text[k] # "ß"

C24_TokenizeIgnoresAsciiCase ==
  (probe.fn = "tokenize" /\ probe.applied) =>
     /\ probe.out.again = probe.out.tokens
     /\ IsAscii(probe.arg.text) => probe.out.upper = probe.out.tokens

C24_Witness ==
  /\ probe.fn = "tokenize"
  /\ probe.applied
  /\ probe.arg.text = txtTheWall
  /\ probe.arg.upper # txtTheWall
  /\ probe.out.tokens = {<<"w", "a", "l", "l">>}
  /\ probe.out.upper = probe.out.tokens

====
